---- MODULE Spec2Model ----
(***************************************************************************)
(* filify: files of a directory are moved into category folders by their   *)
(* extension; every move is recorded as one text line in filify.log, and   *)
(* two undo commands read that log back, reverse moves and rewrite it.     *)
(*                                                                         *)
(* Text is modelled as sequences of one-character strings, so that the     *)
(* formatting of a log line and its parsing (strip / split / substring     *)
(* search) are computed the way the Python code computes them.  The file   *)
(* system is a function from absolute paths to file contents; the log is   *)
(* one of its files.                                                       *)
(***************************************************************************)
EXTENDS Integers, Sequences, FiniteSets, TLC

(***************************************************************************)
(* Bounds of the model.                                                    *)
(***************************************************************************)
MaxRuns == 2        \* invocations of the tool in one behaviour
MaxN == 3           \* largest N given to --undo

(***************************************************************************)
(* Text helpers (Python str semantics).                                    *)
(***************************************************************************)
IsPrefixAt(s, sub, i) ==
    /\ i + Len(sub) - 1 <= Len(s)
    /\ \A k \in 1..Len(sub) : s[i + k - 1] = sub[k]

RECURSIVE FindFrom(_, _, _)
\* s.find(sub, i): the first position >= i where sub occurs in s, 0 when none
FindFrom(s, sub, i) ==
    IF i + Len(sub) - 1 > Len(s) THEN 0
    ELSE IF sub = <<>> THEN i
    ELSE IF s[i] = sub[1] /\ IsPrefixAt(s, sub, i) THEN i
    ELSE FindFrom(s, sub, i + 1)

\* sub in s
Contains(s, sub) == FindFrom(s, sub, 1) # 0

RECURSIVE SplitFrom(_, _, _)
SplitFrom(s, sep, i) ==
    LET j == FindFrom(s, sep, i)
    IN  IF j = 0 THEN <<SubSeq(s, i, Len(s))>>
        ELSE <<SubSeq(s, i, j - 1)>> \o SplitFrom(s, sep, j + Len(sep))

\* s.split(sep)
Split(s, sep) == SplitFrom(s, sep, 1)

IsSpace(c) == c \in {" ", "\n", "\t"}

RECURSIVE FirstNonSpace(_, _)
FirstNonSpace(s, i) ==
    IF i > Len(s) \/ ~IsSpace(s[i]) THEN i ELSE FirstNonSpace(s, i + 1)

RECURSIVE LastNonSpace(_, _)
LastNonSpace(s, i) ==
    IF i < 1 \/ ~IsSpace(s[i]) THEN i ELSE LastNonSpace(s, i - 1)

\* s.strip()
Strip(s) == SubSeq(s, FirstNonSpace(s, 1), LastNonSpace(s, Len(s)))

UpperChars == <<"A", "B", "C", "D", "E", "F", "G", "H", "I", "J", "K", "L", "M",
                "N", "O", "P", "Q", "R", "S", "T", "U", "V", "W", "X", "Y", "Z">>
LowerChars == <<"a", "b", "c", "d", "e", "f", "g", "h", "i", "j", "k", "l", "m",
                "n", "o", "p", "q", "r", "s", "t", "u", "v", "w", "x", "y", "z">>

LowerChar(c) ==
    IF \E i \in 1..26 : UpperChars[i] = c
    THEN LowerChars[CHOOSE i \in 1..26 : UpperChars[i] = c]
    ELSE c

\* s.lower()
Lower(s) == [i \in 1..Len(s) |-> LowerChar(s[i])]

\* os.path.join(a, b) on POSIX
Join(a, b) ==
    IF Len(b) > 0 /\ b[1] = "/" THEN b
    ELSE IF a = <<>> \/ a[Len(a)] = "/" THEN a \o b
    ELSE a \o <<"/">> \o b

RECURSIVE LinesFrom(_, _)
LinesFrom(text, i) ==
    IF i > Len(text) THEN <<>>
    ELSE LET j == FindFrom(text, <<"\n">>, i)
         IN  IF j = 0 THEN <<SubSeq(text, i, Len(text))>>
             ELSE <<SubSeq(text, i, j)>> \o LinesFrom(text, j + 1)

\* file.readlines(): the lines of a text, each keeping its line end
ReadLines(text) == LinesFrom(text, 1)

RECURSIVE Concat(_)
\* the text file.writelines(ls) writes
Concat(ls) == IF ls = <<>> THEN <<>> ELSE Head(ls) \o Concat(Tail(ls))

Reverse(s) == [i \in 1..Len(s) |-> s[Len(s) + 1 - i]]

\* Python slices ls[-n:] and ls[:-n]
SliceLast(ls, n) ==
    LET start == IF n > 0 THEN (IF Len(ls) - n > 0 THEN Len(ls) - n ELSE 0)
                 ELSE (IF -n < Len(ls) THEN -n ELSE Len(ls))
    IN  SubSeq(ls, start + 1, Len(ls))
\* a slip: lines[:-1], whatever n is
SliceButLastOne(ls, n) == SubSeq(ls, 1, Len(ls) - 1)

SliceButLast(ls, n) ==
    LET stop == IF n > 0 THEN (IF Len(ls) - n > 0 THEN Len(ls) - n ELSE 0)
                ELSE (IF -n < Len(ls) THEN -n ELSE Len(ls))
    IN  SubSeq(ls, 1, stop)

(***************************************************************************)
(* Names, paths and configuration.                                         *)
(***************************************************************************)
CONFIG_FILE == <<"c", "o", "n", "f", "i", "g", ".", "j", "s", "o", "n">>
LOG_FILE == <<"f", "i", "l", "i", "f", "y", ".", "l", "o", "g">>

SepBar == <<" ", "|", " ">>
SepArrow == <<" ", "-", ">", " ">>
Unsorted == <<"U", "n", "s", "o", "r", "t", "e", "d">>

\* the working directory of the process; relative names resolve against it
Cwd == <<"/", "w">>
ConfigPath == Join(Cwd, CONFIG_FILE)
LogPath == Join(Cwd, LOG_FILE)

Jpg == <<"j", "p", "g">>
Png == <<"p", "n", "g">>
Txt == <<"t", "x", "t">>
Images == <<"I", "m", "g">>
Docs == <<"D", "o", "c">>

\* config["group_extensions"]: categories in declaration order; the second
\* configuration lists png in upper case only
Configs ==
    { << [name |-> Images, exts |-> {Jpg, Png}], [name |-> Docs, exts |-> {Txt, Jpg}] >>,
      << [name |-> Docs, exts |-> {Txt, Jpg, <<"P", "N", "G">>}],
         [name |-> Images, exts |-> {Jpg}] >> }

\* str(uuid.uuid4())[:8]: eight hexadecimal characters; the values it may return
generate_commit_id == { <<"0", "0", "0", "0", "0", "0", "0", "a">>,
               <<"0", "0", "0", "0", "0", "0", "0", "b">> }

\* datetime.now().strftime('%Y-%m-%d %H:%M:%S')
Timestamps == { <<"2", "0", "2", "5", "-", "0", "1", "-", "0", "1", " ",
                  "1", "0", ":", "0", "0", ":", "0", "0">> }

\* file names that may be present in the target directory
FileA == <<"a", ".", "j", "p", "g">>
FileB == <<"b", ".", "P", "N", "G">>
FileBar == <<"x", " ", "|", " ", "y", ".", "m", "d">>
FileArrow == <<"p", " ", "-", ">", " ", "q">>
FileHex == <<"0", "0", "0", "0", "0", "0", "0", "a">>
FileNames == {FileA, FileB, FileBar, FileArrow, FileHex}

\* the target directory and the files in it when the tool is first started
Scenarios ==
    { [directory |-> <<"/", "t">>, files |-> {FileA}],
      [directory |-> <<"/", "t">>, files |-> {FileA, FileB}],
      [directory |-> <<"/", "t">>, files |-> {FileA, FileBar}],
      [directory |-> <<"/", "t">>, files |-> {FileA, FileArrow}],
      [directory |-> <<"/", "t">>, files |-> {FileA, FileHex}],
      [directory |-> Cwd, files |-> {}],
      [directory |-> Cwd, files |-> {FileA}] }

FormatLine(timestamp, commit_id, original_path, new_path) ==
    timestamp \o SepBar \o commit_id \o SepBar \o original_path \o SepArrow
        \o new_path \o <<"\n">>

\* a record of an earlier move whose destination file is gone
StaleLine(d) ==
    FormatLine(CHOOSE t \in Timestamps : TRUE, <<"0", "0", "0", "0", "0", "0", "0", "b">>,
               Join(d, <<"z", ".", "p", "n", "g">>),
               Join(Join(d, Images), <<"z", ".", "p", "n", "g">>))

\* contents filify.log may have when the tool starts
PriorLogs(d) == { <<>>, StaleLine(d) }

(***************************************************************************)
(* The command line.  An option is <<>> when it is not given and <<value>> *)
(* when it is.                                                             *)
(***************************************************************************)
NoArguments == [undo |-> <<>>, undo_commit |-> <<>>]

\* the identifiers given to --undo_commit
UndoIds == generate_commit_id \cup {Jpg}

\* the command lines the tool is started with
CommandLines ==
    {NoArguments}
    \cup {[undo |-> <<n>>, undo_commit |-> <<>>] : n \in {-1, 0} \cup 1..MaxN}
    \cup {[undo |-> <<>>, undo_commit |-> <<id>>] : id \in {<<>>} \cup UndoIds}
    \cup {[undo |-> <<n>>, undo_commit |-> <<Jpg>>] : n \in {0, 1}}

\* parser.parse_args(): --undo is an int that defaults to 0, --undo_commit a
\* string that defaults to None (here <<>>)
parse_args(cmd) ==
    [undo |-> IF cmd.undo = <<>> THEN 0 ELSE cmd.undo[1], undo_commit |-> cmd.undo_commit]

\* the branch __main__ takes: if args.undo > 0 / elif args.undo_commit / else
Dispatch(args) ==
    IF args.undo > 0 THEN "undo_last_moves"
    ELSE IF args.undo_commit # <<>> /\ args.undo_commit[1] # <<>> THEN "undo_by_commit_id"
    ELSE "categorize_files"

(***************************************************************************)
(* State.                                                                  *)
(***************************************************************************)
VARIABLES
    fs,                 \* the file system: absolute path -> content of the file
    DIRECTORY,          \* config["directory"]
    GROUP_EXTENSIONS,   \* config["group_extensions"]
    pc,                 \* "idle", or the position inside categorize_files
    dir_files,          \* categorize_files: the files still to process
    runs,               \* invocations so far
    fs0,                \* the file system when the current invocation started
    call,               \* the current invocation: function, argument, previous function
    moved,              \* categorize_files: the moves performed by the last run, in order
    written,            \* log_move: the records appended by the last run, in order
    attempts,           \* undo: the per-entry outcomes, in order
    effects,            \* the file operations of the current invocation, in order
    outcome,            \* how the current invocation ended
    argv,               \* the command line of the current invocation
    faulted             \* the operating system has refused an operation of the tool

vars == <<fs, DIRECTORY, GROUP_EXTENSIONS, pc, dir_files, runs, fs0, call,
          moved, written, attempts, effects, outcome, argv, faulted>>

(***************************************************************************)
(* File system helpers.                                                    *)
(***************************************************************************)
\* os.path.exists(p)
Exists(fsys, p) == p \in DOMAIN fsys

\* shutil.move(src, dst) for a file src: a rename that replaces dst
Move(fsys, src, dst) ==
    [p \in (DOMAIN fsys \ {src}) \cup {dst} |-> IF p = dst THEN fsys[src] ELSE fsys[p]]

\* open(p, "w") ... writelines: p holds exactly text afterwards
WriteFile(fsys, p, text) ==
    [q \in DOMAIN fsys \cup {p} |-> IF q = p THEN text ELSE fsys[q]]

\* open(p, "a") ... write: text is added at the end of p, which is created if absent
AppendFile(fsys, p, text) ==
    WriteFile(fsys, p, (IF Exists(fsys, p) THEN fsys[p] ELSE <<>>) \o text)

MoveEffect(src, dst) == [op |-> "move", src |-> src, dst |-> dst]
WriteEffect(p) == [op |-> "write", src |-> <<>>, dst |-> p]
AppendEffect(p) == [op |-> "append", src |-> <<>>, dst |-> p]

\* the permutations of a finite set, as sequences
Orders(S) ==
    {s \in [1..Cardinality(S) -> S] : \A i, j \in 1..Cardinality(S) : s[i] = s[j] => i = j}

\* list_files_and_folders: the names of the files directly in DIRECTORY, in
\* the order os.listdir gives them (any order)
list_files_and_folders(fsys, d) ==
    Orders({f \in FileNames \cup {LOG_FILE, CONFIG_FILE} : Exists(fsys, Join(d, f))})

\* load_config succeeds: config.json is in the working directory
load_config(fsys) == Exists(fsys, ConfigPath)

(***************************************************************************)
(* Init: a configuration, some files in the target directory, and a log    *)
(* that is absent, empty or left by earlier runs.                          *)
(***************************************************************************)
InitFs(d, names, hasLog, prior) ==
    LET paths == {Join(d, f) : f \in names}
        base == [p \in paths \cup {ConfigPath} |->
                    IF p = ConfigPath THEN <<"{", "}">>
                    ELSE CHOOSE f \in names : Join(d, f) = p]
    IN  IF hasLog THEN WriteFile(base, LogPath, prior) ELSE base

Init ==
    /\ GROUP_EXTENSIONS \in Configs
    /\ \E sc \in Scenarios, hasLog \in BOOLEAN :
         \E prior \in (IF hasLog THEN PriorLogs(sc.directory) ELSE {<<>>}) :
            /\ DIRECTORY = sc.directory
            /\ fs = InitFs(sc.directory, sc.files, hasLog, prior)
    /\ pc = "idle"
    /\ dir_files = <<>>
    /\ runs = 0
    /\ fs0 = fs
    /\ call = [fn |-> "none", arg |-> <<>>, after |-> "none"]
    /\ moved = <<>>
    /\ written = <<>>
    /\ attempts = <<>>
    /\ effects = <<>>
    /\ outcome = "none"
    /\ argv = NoArguments
    /\ faulted = FALSE

(***************************************************************************)
(* categorize_files                                                        *)
(***************************************************************************)
RECURSIVE LastMatch(_, _)
\* a slip: the scan does not stop at the first category listing the extension
LastMatch(groups, file_extension) ==
    IF groups = <<>> THEN <<>>
    ELSE LET rest == LastMatch(Tail(groups), file_extension)
         IN  IF rest # <<>> THEN rest
             ELSE IF file_extension \in Head(groups).exts THEN <<Head(groups).name>>
             ELSE <<>>

RECURSIVE FirstMatch(_, _)
\* the scan of GROUP_EXTENSIONS.items(): the first category listing the
\* extension, <<>> when none does
FirstMatch(groups, file_extension) ==
    IF groups = <<>> THEN <<>>
    ELSE IF file_extension \in Head(groups).exts THEN <<Head(groups).name>>
    ELSE FirstMatch(Tail(groups), file_extension)

\* file.split('.')[-1].lower()
FileExtension(file) ==
    LET parts == Split(file, <<".">>) IN Lower(parts[Len(parts)])

\* the folder categorize_files moves file into
destination_folder(d, groups, file) ==
    LET unsorted_folder == Join(d, Unsorted)
    IN  IF ~Contains(file, <<".">>) THEN unsorted_folder
        ELSE LET hit == FirstMatch(groups, FileExtension(file))
             IN  IF hit # <<>> THEN Join(d, hit[1]) ELSE unsorted_folder

\* __main__ when neither undo branch is taken: list the directory, start the
\* loop over its files
\* (the category folders and the fallback folder are created first; the model
\* keeps files only, a folder exists as soon as it is needed)
CategorizeStart ==
    /\ pc = "idle"
    /\ runs < MaxRuns
    /\ load_config(fs)
    /\ runs' = runs + 1
    /\ fs0' = fs
    /\ \E files \in list_files_and_folders(fs, DIRECTORY) :
         /\ dir_files' = files
         /\ call' = [fn |-> "categorize_files", arg |-> files, after |-> call.fn]
         /\ pc' = IF files = <<>> THEN "idle" ELSE "move"
         /\ outcome' = IF files = <<>> THEN "done" ELSE "running"
    /\ moved' = <<>>
    /\ written' = <<>>
    /\ attempts' = <<>>
    /\ effects' = <<>>
    /\ \E cmd \in CommandLines :
         /\ Dispatch(parse_args(cmd)) = "categorize_files"
         /\ argv' = cmd
    /\ UNCHANGED <<fs, DIRECTORY, GROUP_EXTENSIONS, faulted>>

\* shutil.move(file_path, new_path) of the current file succeeds
CategorizeMove ==
    /\ pc = "move"
    /\ LET file == Head(dir_files)
           file_path == Join(DIRECTORY, file)
           new_path == Join(destination_folder(DIRECTORY, GROUP_EXTENSIONS, file), file)
       IN  /\ Exists(fs, file_path)
           /\ fs' = Move(fs, file_path, new_path)
           /\ moved' = Append(moved, [file |-> file, original |-> file_path, new |-> new_path])
           /\ effects' = Append(effects, MoveEffect(file_path, new_path))
    /\ pc' = "log"
    /\ UNCHANGED <<DIRECTORY, GROUP_EXTENSIONS, dir_files, runs, fs0, call, written,
                   attempts, outcome, argv, faulted>>

\* a slip: the failure of shutil.move is swallowed and log_move still runs
CategorizeMoveSwallowed ==
    /\ pc = "move"
    /\ LET file == Head(dir_files)
           file_path == Join(DIRECTORY, file)
           new_path == Join(destination_folder(DIRECTORY, GROUP_EXTENSIONS, file), file)
       IN  moved' = Append(moved, [file |-> file, original |-> file_path, new |-> new_path])
    /\ pc' = "log"
    /\ UNCHANGED <<fs, DIRECTORY, GROUP_EXTENSIONS, dir_files, runs, fs0, call, written,
                   attempts, effects, outcome, argv, faulted>>

\* shutil.move raises: the except clauses print and exit(1)
CategorizeMoveFails ==
    /\ pc = "move"
    /\ pc' = "idle"
    /\ outcome' = "aborted"
    /\ faulted' = TRUE
    /\ UNCHANGED <<fs, DIRECTORY, GROUP_EXTENSIONS, dir_files, runs, fs0, call, moved,
                   written, attempts, effects, argv>>

\* the line log_move writes
log_move(timestamp, commit_id, original_path, new_path) ==
    [commit_id |-> commit_id, original |-> original_path, new |-> new_path,
     line |-> FormatLine(timestamp, commit_id, original_path, new_path)]

\* log_move(file_path, new_path) after the move, then the next iteration
CategorizeLog ==
    /\ pc = "log"
    /\ \E commit_id \in generate_commit_id, timestamp \in Timestamps :
         LET m == moved[Len(moved)]
             r == log_move(timestamp, commit_id, m.original, m.new)
         IN  /\ fs' = AppendFile(fs, LogPath, r.line)
             /\ written' = Append(written, r)
             /\ effects' = Append(effects, AppendEffect(LogPath))
    /\ dir_files' = Tail(dir_files)
    /\ pc' = IF Tail(dir_files) = <<>> THEN "idle" ELSE "move"
    /\ outcome' = IF Tail(dir_files) = <<>> THEN "done" ELSE "running"
    /\ UNCHANGED <<DIRECTORY, GROUP_EXTENSIONS, runs, fs0, call, moved, attempts, argv,
                   faulted>>

\* log_move raises (the log cannot be opened or written): exit(1)
CategorizeLogFails ==
    /\ pc = "log"
    /\ pc' = "idle"
    /\ outcome' = "aborted"
    /\ faulted' = TRUE
    /\ UNCHANGED <<fs, DIRECTORY, GROUP_EXTENSIONS, dir_files, runs, fs0, call, moved,
                   written, attempts, effects, argv>>

(***************************************************************************)
(* Undo: parsing of a log line, shared by both undo commands.              *)
(***************************************************************************)
\* x, _, move_entry = line.strip().split(" | "); original, new = move_entry.split(" -> ")
\* fields = 0: the first unpacking raised; ok: both unpackings succeeded
ParseLine(line) ==
    LET parts == Split(Strip(line), SepBar)
    IN  IF Len(parts) # 3
        THEN [ok |-> FALSE, fields |-> 0, first |-> <<>>, original |-> <<>>, new |-> <<>>]
        ELSE LET entry == Split(parts[3], SepArrow)
             IN  IF Len(entry) # 2
                 THEN [ok |-> FALSE, fields |-> 3, first |-> parts[1],
                       original |-> <<>>, new |-> <<>>]
                 ELSE [ok |-> TRUE, fields |-> 3, first |-> parts[1],
                       original |-> entry[1], new |-> entry[2]]

\* lines.pop(k)
RemoveAt(ls, k) == SubSeq(ls, 1, k - 1) \o SubSeq(ls, k + 1, Len(ls))

\* one per-entry outcome: the line it is about, what happened, and the
\* commit id the message names
Entry(line, result, label, original, new) ==
    [line |-> line, result |-> result, commit_id |-> label, original |-> original,
     new |-> new]

\* the shutil.move calls behind the "restored" entries, in order
RestoreEffects(entries) ==
    LET IsRestored(e) == e.result = "restored"
        done == SelectSeq(entries, IsRestored)
    IN  [i \in 1..Len(done) |-> MoveEffect(done[i].new, done[i].original)]

(***************************************************************************)
(* undo_by_commit_id                                                       *)
(***************************************************************************)
\* a slip: the lines are scanned from the start, so the oldest match is taken
ScanOldest(lines, k, commit_id) ==
    LET hits == {j \in 1..k : Contains(lines[j], commit_id)}
    IN  IF hits = {} THEN 0 ELSE CHOOSE j \in hits : \A i \in hits : j <= i

RECURSIVE ScanBack(_, _, _)
\* for i, line in enumerate(reversed(lines)): if commit_id in line
\* the index of the first line met that contains commit_id, 0 when none does
ScanBack(lines, k, commit_id) ==
    IF k = 0 THEN 0
    ELSE IF Contains(lines[k], commit_id) THEN k
    ELSE ScanBack(lines, k - 1, commit_id)

\* a slip: the line is popped before the destination is looked at, so a record
\* whose file is missing is dropped, as undo_last_moves does
TryRestoreDropsMissing(fsys, lines, k, commit_id, raises) ==
    LET line == lines[k]
        p == ParseLine(line)
    IN  IF ~p.ok
        THEN [fs |-> fsys, lines |-> lines, undone |-> FALSE, outcome |-> "parse_error",
              attempts |-> <<Entry(line, "error", commit_id, <<>>, <<>>)>>]
        ELSE IF ~Exists(fsys, p.new)
        THEN [fs |-> fsys, lines |-> RemoveAt(lines, k), undone |-> TRUE,
              outcome |-> "missing",
              attempts |-> <<Entry(line, "missing", commit_id, p.original, p.new)>>]
        ELSE IF raises
        THEN [fs |-> fsys, lines |-> lines, undone |-> FALSE, outcome |-> "move_error",
              attempts |-> <<Entry(line, "error", commit_id, p.original, p.new)>>]
        ELSE [fs |-> Move(fsys, p.new, p.original), lines |-> RemoveAt(lines, k),
              undone |-> TRUE, outcome |-> "restored",
              attempts |-> <<Entry(line, "restored", commit_id, p.original, p.new)>>]

\* the try block run on the matching line lines[k]; raises: shutil.move
\* raises when it is called
TryRestore(fsys, lines, k, commit_id, raises) ==
    LET line == lines[k]
        p == ParseLine(line)
    IN  IF ~p.ok
        THEN [fs |-> fsys, lines |-> lines, undone |-> FALSE, outcome |-> "parse_error",
              attempts |-> <<Entry(line, "error", commit_id, <<>>, <<>>)>>]
        ELSE IF ~Exists(fsys, p.new)
        THEN [fs |-> fsys, lines |-> lines, undone |-> FALSE, outcome |-> "missing",
              attempts |-> <<Entry(line, "missing", commit_id, p.original, p.new)>>]
        ELSE IF raises
        THEN [fs |-> fsys, lines |-> lines, undone |-> FALSE, outcome |-> "move_error",
              attempts |-> <<Entry(line, "error", commit_id, p.original, p.new)>>]
        ELSE [fs |-> Move(fsys, p.new, p.original), lines |-> RemoveAt(lines, k),
              undone |-> TRUE, outcome |-> "restored",
              attempts |-> <<Entry(line, "restored", commit_id, p.original, p.new)>>]

\* a slip: the log is rewritten whether or not a move was undone
PersistAlways(r) ==
    [fs |-> WriteFile(r.fs, LogPath, Concat(r.lines)), outcome |-> r.outcome,
     attempts |-> r.attempts,
     effects |-> RestoreEffects(r.attempts) \o <<WriteEffect(LogPath)>>]

\* if undone: rewrite the log file; r is what the loop left
PersistUndo(r) ==
    IF r.undone
    THEN [fs |-> WriteFile(r.fs, LogPath, Concat(r.lines)), outcome |-> r.outcome,
          attempts |-> r.attempts,
          effects |-> RestoreEffects(r.attempts) \o <<WriteEffect(LogPath)>>]
    ELSE [fs |-> r.fs, outcome |-> r.outcome, attempts |-> r.attempts,
          effects |-> RestoreEffects(r.attempts)]

\* the body of undo_by_commit_id
undo_by_commit_id(fsys, commit_id, raises) ==
    IF ~Exists(fsys, LogPath)
    THEN [fs |-> fsys, outcome |-> "no_log", attempts |-> <<>>, effects |-> <<>>]
    ELSE
    LET lines == ReadLines(fsys[LogPath])
        k == ScanBack(lines, Len(lines), commit_id)
    IN  IF k = 0
        THEN PersistUndo([fs |-> fsys, lines |-> lines, undone |-> FALSE,
                          outcome |-> "not_found", attempts |-> <<>>])
        ELSE PersistUndo(TryRestore(fsys, lines, k, commit_id, raises))

\* whether undo_by_commit_id(commit_id) reaches shutil.move
MoveCalled(fsys, commit_id) == undo_by_commit_id(fsys, commit_id, FALSE).outcome = "restored"

\* __main__ when args.undo_commit is the branch taken; shutil.move may raise
\* where it is called
UndoByCommitId ==
    /\ pc = "idle"
    /\ runs < MaxRuns
    /\ load_config(fs)
    /\ \E cmd \in CommandLines :
         /\ Dispatch(parse_args(cmd)) = "undo_by_commit_id"
         /\ argv' = cmd
         /\ \E commit_id \in {parse_args(cmd).undo_commit[1]} :
            \E raises \in {FALSE, MoveCalled(fs, commit_id)} :
            \E r \in {undo_by_commit_id(fs, commit_id, raises)} :
                /\ fs' = r.fs
                /\ outcome' = r.outcome
                /\ attempts' = r.attempts
                /\ effects' = r.effects
                /\ faulted' = (faulted \/ r.outcome = "move_error")
                /\ call' = [fn |-> "undo_by_commit_id", arg |-> commit_id, after |-> call.fn]
    /\ runs' = runs + 1
    /\ fs0' = fs
    /\ UNCHANGED <<DIRECTORY, GROUP_EXTENSIONS, pc, dir_files, moved, written>>

(***************************************************************************)
(* undo_last_moves                                                         *)
(***************************************************************************)
RECURSIVE UndoLoop(_, _, _, _, _, _)
\* for move in reversed(last_moves): batch is reversed(last_moves), i the
\* iteration, label the value of the local commit_id (<<>>: not yet bound,
\* else <<value>>), acc the entries of successful_undos and failed_undos in
\* the order they were added, raises the iterations where shutil.move raises
UndoLoop(batch, i, fsys, label, acc, raises) ==
    IF i > Len(batch) THEN [fs |-> fsys, attempts |-> acc, crashed |-> FALSE]
    ELSE
    LET move == batch[i]
        p == ParseLine(move)
    IN  IF p.fields = 0
        THEN IF label = <<>>
             THEN \* the except clause reads commit_id, which is unbound
                  [fs |-> fsys, attempts |-> acc, crashed |-> TRUE]
             ELSE UndoLoop(batch, i + 1, fsys, label,
                           Append(acc, Entry(move, "error", label[1], <<>>, <<>>)), raises)
        ELSE IF ~p.ok
        THEN UndoLoop(batch, i + 1, fsys, <<p.first>>,
                      Append(acc, Entry(move, "error", p.first, <<>>, <<>>)), raises)
        ELSE IF ~Exists(fsys, p.new)
        THEN UndoLoop(batch, i + 1, fsys, <<p.first>>,
                      Append(acc, Entry(move, "missing", p.first, p.original, p.new)), raises)
        ELSE IF i \in raises
        THEN UndoLoop(batch, i + 1, fsys, <<p.first>>,
                      Append(acc, Entry(move, "error", p.first, p.original, p.new)), raises)
        ELSE UndoLoop(batch, i + 1, Move(fsys, p.new, p.original), <<p.first>>,
                      Append(acc, Entry(move, "restored", p.first, p.original, p.new)), raises)

\* a slip: the test for an empty log is missing, so an empty log goes through
\* the loop and is rewritten
UndoLastMovesNoEmptyTest(fsys, n, raises) ==
    IF ~Exists(fsys, LogPath)
    THEN [fs |-> fsys, outcome |-> "no_log", attempts |-> <<>>, effects |-> <<>>]
    ELSE
    LET lines == ReadLines(fsys[LogPath])
        r == UndoLoop(Reverse(SliceLast(lines, n)), 1, fsys, <<>>, <<>>, raises)
    IN  IF r.crashed
        THEN [fs |-> r.fs, outcome |-> "crashed", attempts |-> r.attempts,
              effects |-> RestoreEffects(r.attempts)]
        ELSE [fs |-> WriteFile(r.fs, LogPath, Concat(SliceButLast(lines, n))),
              outcome |-> "returned", attempts |-> r.attempts,
              effects |-> RestoreEffects(r.attempts) \o <<WriteEffect(LogPath)>>]

\* the body of undo_last_moves
undo_last_moves(fsys, n, raises) ==
    IF ~Exists(fsys, LogPath)
    THEN [fs |-> fsys, outcome |-> "no_log", attempts |-> <<>>, effects |-> <<>>]
    ELSE
    LET lines == ReadLines(fsys[LogPath])
    IN  IF lines = <<>>
        THEN [fs |-> fsys, outcome |-> "empty_log", attempts |-> <<>>, effects |-> <<>>]
        ELSE
        LET last_moves == SliceLast(lines, n)
            r == UndoLoop(Reverse(last_moves), 1, fsys, <<>>, <<>>, raises)
        IN  IF r.crashed
            THEN [fs |-> r.fs, outcome |-> "crashed", attempts |-> r.attempts,
                  effects |-> RestoreEffects(r.attempts)]
            ELSE [fs |-> WriteFile(r.fs, LogPath, Concat(SliceButLast(lines, n))),
                  outcome |-> "returned", attempts |-> r.attempts,
                  effects |-> RestoreEffects(r.attempts) \o <<WriteEffect(LogPath)>>]

\* shutil.move raised in one of the iterations
MoveRaised(entries) ==
    \E i \in 1..Len(entries) : entries[i].result = "error" /\ entries[i].new # <<>>

\* the iterations of undo_last_moves(n) that can reach shutil.move: the line
\* parses, and its destination is there or is where an earlier iteration
\* puts a file
MoveCalls(fsys, n) ==
    IF ~Exists(fsys, LogPath) THEN {}
    ELSE LET batch == Reverse(SliceLast(ReadLines(fsys[LogPath]), n))
             p == [i \in 1..Len(batch) |-> ParseLine(batch[i])]
         IN  {j \in 1..Len(batch) :
                /\ p[j].ok
                /\ \/ Exists(fsys, p[j].new)
                   \/ \E i \in 1..(j - 1) : p[i].ok /\ p[i].original = p[j].new}

\* __main__ when args.undo > 0; shutil.move may raise where it is called
UndoLastMoves ==
    /\ pc = "idle"
    /\ runs < MaxRuns
    /\ load_config(fs)
    /\ \E cmd \in CommandLines :
         /\ Dispatch(parse_args(cmd)) = "undo_last_moves"
         /\ argv' = cmd
         /\ \E n \in {parse_args(cmd).undo} :
            \E raises \in SUBSET MoveCalls(fs, n) :
            \E r \in {undo_last_moves(fs, n, raises)} :
                /\ fs' = r.fs
                /\ outcome' = r.outcome
                /\ attempts' = r.attempts
                /\ effects' = r.effects
                /\ faulted' = (faulted \/ MoveRaised(r.attempts))
                /\ call' = [fn |-> "undo_last_moves", arg |-> n, after |-> call.fn]
    /\ runs' = runs + 1
    /\ fs0' = fs
    /\ UNCHANGED <<DIRECTORY, GROUP_EXTENSIONS, pc, dir_files, moved, written>>

Next ==
    \/ CategorizeStart
    \/ CategorizeMove
    \/ CategorizeMoveFails
    \/ CategorizeLog
    \/ CategorizeLogFails
    \/ UndoByCommitId
    \/ UndoLastMoves

Spec == Init /\ [][Next]_vars

(***************************************************************************)
(* The module used as a library: after its import has loaded the           *)
(* configuration, a caller calls undo_last_moves(n) itself, with any n >= 0,*)
(* between categorize runs.                                                *)
(***************************************************************************)
CallUndoLastMoves ==
    /\ pc = "idle"
    /\ runs < MaxRuns
    /\ load_config(fs)
    /\ \E n \in 0..MaxN :
         \E raises \in SUBSET MoveCalls(fs, n) :
         \E r \in {undo_last_moves(fs, n, raises)} :
             /\ fs' = r.fs
             /\ outcome' = r.outcome
             /\ attempts' = r.attempts
             /\ effects' = r.effects
             /\ faulted' = (faulted \/ MoveRaised(r.attempts))
             /\ call' = [fn |-> "undo_last_moves", arg |-> n, after |-> call.fn]
    /\ runs' = runs + 1
    /\ fs0' = fs
    /\ argv' = NoArguments
    /\ UNCHANGED <<DIRECTORY, GROUP_EXTENSIONS, pc, dir_files, moved, written>>

NextCall ==
    \/ CategorizeStart
    \/ CategorizeMove
    \/ CategorizeLog
    \/ CallUndoLastMoves

SpecCall == Init /\ [][NextCall]_vars

(***************************************************************************)
(* Properties.                                                             *)
(***************************************************************************)
\* the lines of the log in a file system, none when the log is absent
LogLines(fsys) == IF Exists(fsys, LogPath) THEN ReadLines(fsys[LogPath]) ELSE <<>>

\* the log lines the undo of the current invocation dealt with, in order
AttemptedLines == [i \in 1..Len(attempts) |-> attempts[i].line]

HasAttempt(result) == \E i \in 1..Len(attempts) : attempts[i].result = result

\* C1: after categorize has moved a file and appended its record with commit
\* id c, undo_by_commit_id(c) puts the file back at its original path and
\* removes exactly that record's line from the log, every other line staying
\* in place (the operating system refusing the move aside).
C1_RoundTripById ==
    (call.fn = "undo_by_commit_id" /\ call.after = "categorize_files"
        /\ outcome # "move_error")
    => \A k \in 1..Len(written) :
         LET r == written[k]
             lines0 == LogLines(fs0)
         IN  (r.commit_id = call.arg /\ Exists(fs0, r.new))
             => /\ Exists(fs, r.original)
                /\ fs[r.original] = fs0[r.new]
                /\ ~Exists(fs, r.new)
                /\ \E j \in 1..Len(lines0) :
                     lines0[j] = r.line /\ LogLines(fs) = RemoveAt(lines0, j)

\* C2: undo_last_moves(n) on a log of M >= n lines deals with exactly the
\* last n lines, the most recently appended first.
C2_ReverseOrder ==
    LET lines0 == LogLines(fs0)
        M == Len(lines0)
    IN  (call.fn = "undo_last_moves" /\ M >= call.arg)
        => AttemptedLines = [i \in 1..call.arg |-> lines0[M + 1 - i]]

\* C3: when undo_last_moves(n), n >= 1, returns on a log of M >= n lines, the
\* log is exactly its first M - n lines, whatever the restores did.
C3_Truncated ==
    LET lines0 == LogLines(fs0)
        M == Len(lines0)
    IN  (call.fn = "undo_last_moves" /\ outcome = "returned" /\ M >= call.arg)
        => /\ Exists(fs, LogPath)
           /\ fs[LogPath] = Concat(SubSeq(lines0, 1, M - call.arg))
           /\ LogLines(fs) = SubSeq(lines0, 1, M - call.arg)

\* a batch that returned with one record restored and one whose file was missing
C3_Witness ==
    /\ call.fn = "undo_last_moves"
    /\ outcome = "returned"
    /\ Len(LogLines(fs0)) >= call.arg
    /\ HasAttempt("missing")
    /\ HasAttempt("restored")

\* the index of the most recently appended line that contains s, 0 when none
LastLineWith(ls, s) ==
    LET hits == {j \in 1..Len(ls) : Contains(ls[j], s)}
    IN  IF hits = {} THEN 0 ELSE CHOOSE j \in hits : \A i \in hits : i <= j

\* C4: when the most recent log line containing the identifier cannot be
\* parsed, names a destination that does not exist, or the move back raises,
\* undo_by_commit_id ends with an error, performs no file operation and
\* leaves the log (and every other file) as it was.
C4_FailedUndoKeepsLog ==
    LET lines0 == LogLines(fs0)
        k == LastLineWith(lines0, call.arg)
    IN  (call.fn = "undo_by_commit_id" /\ k # 0)
        => LET p == ParseLine(lines0[k])
           IN  (~p.ok \/ ~Exists(fs0, p.new) \/ outcome = "move_error")
               => /\ outcome \in {"parse_error", "missing", "move_error"}
                  /\ fs = fs0
                  /\ effects = <<>>

\* the identifier's most recent line names a missing file, in a log of several lines
C4_Witness ==
    /\ call.fn = "undo_by_commit_id"
    /\ outcome = "missing"
    /\ Len(LogLines(fs0)) >= 2
    /\ LastLineWith(LogLines(fs0), call.arg) # 0

\* C5: undo_by_commit_id with an identifier that no line of the log contains
\* reports not-found, performs no file operation (the log is not rewritten)
\* and leaves the log as it was.
C5_NotFoundNoChange ==
    (call.fn = "undo_by_commit_id" /\ Exists(fs0, LogPath)
        /\ LastLineWith(LogLines(fs0), call.arg) = 0)
    => /\ outcome = "not_found"
       /\ fs = fs0
       /\ effects = <<>>

\* an unknown identifier on a log that has lines
C5_Witness ==
    /\ call.fn = "undo_by_commit_id"
    /\ outcome = "not_found"
    /\ Len(LogLines(fs0)) >= 1

\* C6: undo_last_moves(N) on a non-empty log of M < N lines does not crash:
\* it deals with the M lines, most recent first, and leaves the log empty.
C6_Clamp ==
    LET lines0 == LogLines(fs0)
        M == Len(lines0)
    IN  (call.fn = "undo_last_moves" /\ 1 <= M /\ M < call.arg)
        => /\ outcome = "returned"
           /\ AttemptedLines = [i \in 1..M |-> lines0[M + 1 - i]]
           /\ LogLines(fs) = <<>>

\* the folder the routing rule gives a file: the fallback folder for a name
\* without '.', else the first-declared category listing the lower-cased text
\* after the last '.', else the fallback folder
DeclaredFolder(file) ==
    LET dots == {i \in 1..Len(file) : file[i] = "."}
    IN  IF dots = {} THEN Unsorted
        ELSE LET last == CHOOSE i \in dots : \A j \in dots : j <= i
                 ext == Lower(SubSeq(file, last + 1, Len(file)))
                 listing == {i \in 1..Len(GROUP_EXTENSIONS) :
                                ext \in GROUP_EXTENSIONS[i].exts}
             IN  IF listing = {} THEN Unsorted
                 ELSE GROUP_EXTENSIONS[CHOOSE i \in listing :
                                          \A j \in listing : i <= j].name

\* the moves among the file operations of the current invocation
MovesDone ==
    LET IsMove(e) == e.op = "move" IN SelectSeq(effects, IsMove)

\* C7: categorize moves the files it was given in order, each once, the i-th
\* into the folder the routing rule gives it; a complete run has moved all.
C7_Routing ==
    call.fn = "categorize_files"
    => /\ Len(moved) <= Len(call.arg)
       /\ \A i \in 1..Len(moved) :
            LET file == call.arg[i]
            IN  /\ moved[i].file = file
                /\ moved[i].original = DIRECTORY \o <<"/">> \o file
                /\ moved[i].new =
                     DIRECTORY \o <<"/">> \o DeclaredFolder(file) \o <<"/">> \o file
       /\ MovesDone = [i \in 1..Len(moved) |-> MoveEffect(moved[i].original, moved[i].new)]
       /\ outcome = "done"
            => /\ Len(moved) = Len(call.arg)
               /\ \A i \in 1..Len(moved) : Exists(fs, moved[i].new)

\* a complete run that routed a.jpg, whose extension two categories list
C7_Witness ==
    /\ call.fn = "categorize_files"
    /\ outcome = "done"
    /\ Len(moved) >= 2
    /\ \E i \in 1..Len(moved) : moved[i].file = FileA

\* C8: after a complete categorize run over k files the log has k more lines,
\* the i-th of them splitting on " | " into a timestamp, a commit id and a
\* move entry that splits on " -> " into the i-th file's original and new path.
C8_OneParsableLinePerMove ==
    LET before == LogLines(fs0)
        after == LogLines(fs)
        k == Len(call.arg)
    IN  (call.fn = "categorize_files" /\ outcome = "done")
        => /\ Len(after) = Len(before) + k
           /\ \A i \in 1..k :
                LET line == after[Len(before) + i]
                    parts == Split(SubSeq(line, 1, Len(line) - 1), SepBar)
                IN  /\ line[Len(line)] = "\n"
                    /\ Len(parts) = 3
                    /\ parts[1] \in Timestamps
                    /\ parts[2] \in generate_commit_id
                    /\ Split(parts[3], SepArrow) = <<moved[i].original, moved[i].new>>

\* C9: at every point of a categorize run, aborted runs included, each record
\* log_move has written is the record of a move already made: the i-th
\* record carries the paths of the i-th move, the file is at its new path,
\* and every append to the log directly follows a move.
C9_Ledger ==
    call.fn = "categorize_files"
    => /\ Len(written) <= Len(moved)
       /\ \A i \in 1..Len(written) :
            /\ written[i].original = moved[i].original
            /\ written[i].new = moved[i].new
            /\ Exists(fs, written[i].new)
       /\ \A j \in 1..Len(effects) :
            effects[j].op = "append" => j > 1 /\ effects[j - 1].op = "move"

\* a run aborted between the second move and its record
C9_Witness ==
    /\ call.fn = "categorize_files"
    /\ outcome = "aborted"
    /\ Len(moved) = 2
    /\ Len(written) = 1

\* C10: at every point of a categorize run the log is the log the run found
\* followed by the records the run has appended.
C10_AppendOnly ==
    call.fn = "categorize_files"
    => LogLines(fs) = LogLines(fs0) \o [i \in 1..Len(written) |-> written[i].line]

\* the last n lines of ls (all of them when there are fewer), the most
\* recently appended first, for n >= 1
LastLines(ls, n) ==
    LET M == Len(ls)
        k == IF n < M THEN n ELSE M
    IN  [i \in 1..k |-> ls[M + 1 - i]]

\* a line that is a record: three fields, the third a two-part move entry
WellFormed(line) == ParseLine(line).ok

\* C11: in undo_last_moves(n), when the destination of some record of the
\* batch is missing, every line of the batch is still attempted, most recent
\* first; each record whose destination is missing gets a failure entry and
\* each record whose destination exists is moved back to its original path
\* (the operating system refusing a move aside).
C11_PartialFailure ==
    LET batch == LastLines(LogLines(fs0), call.arg)
        Missing(j) == WellFormed(batch[j]) /\ ~Exists(fs0, ParseLine(batch[j]).new)
        Present(j) == WellFormed(batch[j]) /\ Exists(fs0, ParseLine(batch[j]).new)
    IN  (call.fn = "undo_last_moves" /\ ~MoveRaised(attempts)
            /\ \E j \in 1..Len(batch) : Missing(j))
        => /\ AttemptedLines = batch
           /\ \A j \in 1..Len(batch) :
                /\ Missing(j) => attempts[j].result = "missing"
                /\ Present(j) =>
                     /\ attempts[j].result = "restored"
                     /\ Exists(fs, ParseLine(batch[j]).original)
                     /\ ~Exists(fs, ParseLine(batch[j]).new)

\* C12: when a line among the last n is malformed, wherever it stands in the
\* batch, undo_last_moves(n) returns normally, has attempted every line of
\* the batch with a failure entry for each malformed one, and has rewritten
\* the log without its last n lines.
C12_ToleratesMalformed ==
    LET lines0 == LogLines(fs0)
        batch == LastLines(lines0, call.arg)
    IN  (call.fn = "undo_last_moves" /\ \E j \in 1..Len(batch) : ~WellFormed(batch[j]))
        => /\ outcome = "returned"
           /\ AttemptedLines = batch
           /\ \A j \in 1..Len(batch) : ~WellFormed(batch[j]) => attempts[j].result = "error"
           /\ LogLines(fs) = SubSeq(lines0, 1, Len(lines0) - Len(batch))

\* C13: on a log that is absent or has no lines, undo_last_moves and
\* undo_by_commit_id return normally with a nothing-to-undo or not-found
\* report, attempt nothing, perform no file operation (the log is neither
\* created nor rewritten) and leave every file as it was.
C13_NoLogNoOp ==
    (call.fn \in {"undo_last_moves", "undo_by_commit_id"} /\ LogLines(fs0) = <<>>)
    => /\ outcome = IF ~Exists(fs0, LogPath) THEN "no_log"
                    ELSE IF call.fn = "undo_last_moves" THEN "empty_log"
                    ELSE "not_found"
       /\ attempts = <<>>
       /\ effects = <<>>
       /\ fs = fs0

\* both commands run one after the other on a log that exists and is empty
C13_Witness ==
    /\ call.fn = "undo_last_moves"
    /\ call.after = "undo_by_commit_id"
    /\ Exists(fs0, LogPath)
    /\ fs0[LogPath] = <<>>
    /\ outcome = "empty_log"

\* the text after the last '.' of a file name, as written
RawExtension(file) ==
    LET dots == {i \in 1..Len(file) : file[i] = "."}
    IN  SubSeq(file, (CHOOSE i \in dots : \A j \in dots : j <= i) + 1, Len(file))

\* category g lists an extension equal to e up to letter case
ListsIgnoringCase(g, e) == \E x \in GROUP_EXTENSIONS[g].exts : Lower(x) = Lower(e)

\* C14: a file whose extension equals, up to letter case, an extension string
\* of the configuration is moved into the first-declared category listing
\* such a string, whatever the case used in the file name or in the
\* configuration.
C14_CaseInsensitive ==
    call.fn = "categorize_files"
    => \A i \in 1..Len(moved) : \A g \in 1..Len(GROUP_EXTENSIONS) :
         LET file == moved[i].file
         IN  (/\ Contains(file, <<".">>)
              /\ ListsIgnoringCase(g, RawExtension(file))
              /\ \A h \in 1..(g - 1) : ~ListsIgnoringCase(h, RawExtension(file)))
             => moved[i].new =
                  DIRECTORY \o <<"/">> \o GROUP_EXTENSIONS[g].name \o <<"/">> \o file

\* C15: categorize_files runs only when the command line has no argument; an
\* invocation given --undo N alone runs undo_last_moves(N), one given
\* --undo_commit ID alone runs undo_by_commit_id(ID), one given both runs
\* exactly one of the two, and the only files an invocation with an argument
\* moves are the ones its undo restores.
C15_Dispatch ==
    call.fn # "none"
    => /\ call.fn = "categorize_files" <=> argv = NoArguments
       /\ (argv.undo # <<>> /\ argv.undo_commit = <<>>)
            => call.fn = "undo_last_moves" /\ call.arg = argv.undo[1]
       /\ (argv.undo = <<>> /\ argv.undo_commit # <<>>)
            => call.fn = "undo_by_commit_id" /\ call.arg = argv.undo_commit[1]
       /\ (argv.undo # <<>> /\ argv.undo_commit # <<>>)
            => call.fn \in {"undo_last_moves", "undo_by_commit_id"}
       /\ argv # NoArguments => MovesDone = RestoreEffects(attempts)

\* s occurs in line as a run of consecutive characters
Occurs(s, line) == \E i \in 1..(Len(line) - Len(s) + 1) : SubSeq(line, i, i + Len(s) - 1) = s

\* the lines of ls in which s occurs anywhere
Matching(ls, s) == {j \in 1..Len(ls) : Occurs(s, ls[j])}

CommitIdField(line) == Split(line, SepBar)[2]

\* C17: every per-entry outcome of undo_last_moves about a line written by
\* log_move is labelled with the commit id of that line.
C17_Label ==
    call.fn = "undo_last_moves"
    => \A i \in 1..Len(attempts) :
         Len(Split(attempts[i].line, SepBar)) >= 3
         => attempts[i].commit_id = CommitIdField(attempts[i].line)

\* the category folders and the fallback folder of the target directory
Folders ==
    {DIRECTORY \o <<"/">> \o GROUP_EXTENSIONS[g].name : g \in 1..Len(GROUP_EXTENSIONS)}
        \cup {DIRECTORY \o <<"/">> \o Unsorted}

\* the files that sit in a category or fallback folder: the tool put them there
Categorized(fsys) ==
    {p \in DOMAIN fsys : \E d \in Folders : IsPrefixAt(p, d \o <<"/">>, 1)}

\* line is the record log_move wrote for a move to path: it ends with
\* " -> ", the path and a line end
RecordOf(line, path) ==
    LET tail == SepArrow \o path \o <<"\n">>
    IN  Len(line) >= Len(tail) /\ SubSeq(line, Len(line) - Len(tail) + 1, Len(line)) = tail

\* the log holds the record of an earlier move whose file was taken away
ExternallyChanged == \E j \in 1..Len(LogLines(fs)) : LogLines(fs)[j] = StaleLine(DIRECTORY)

\* C18: when nothing but the tool has touched the files and the log and the
\* operating system has refused nothing, then after every complete run or
\* call (1) each record of the log names a new path where a file exists and
\* (2) each file in a category or fallback folder has exactly one record in
\* the log.
C18_LogMatchesFiles ==
    (pc = "idle" /\ ~faulted /\ ~ExternallyChanged)
    => LET lines == LogLines(fs)
       IN  /\ \A j \in 1..Len(lines) :
                WellFormed(lines[j]) => Exists(fs, ParseLine(lines[j]).new)
           /\ \A p \in Categorized(fs) :
                Cardinality({j \in 1..Len(lines) : RecordOf(lines[j], p)}) = 1

\* C19: after a complete categorize run that moved k >= 1 files and appended
\* their k records to the log it found, undo_last_moves(k) has every one of
\* the k files back at its original path and the log back to the lines it
\* had before the run (the operating system refusing nothing).
C19_BatchRoundTrip ==
    LET lines0 == LogLines(fs0)
        k == Len(moved)
        before == SubSeq(lines0, 1, Len(lines0) - k)
    IN  (/\ call.fn = "undo_last_moves"
         /\ call.after = "categorize_files"
         /\ ~faulted
         /\ k >= 1
         /\ call.arg = k
         /\ lines0 = before \o [i \in 1..Len(written) |-> written[i].line])
        => /\ \A i \in 1..k :
                /\ Exists(fs, moved[i].original)
                /\ fs[moved[i].original] = fs0[moved[i].new]
                /\ ~Exists(fs, moved[i].new)
           /\ LogLines(fs) = before

\* C20: undo_last_moves(n), n >= 0, on a log of M lines moves back at most n
\* files and leaves the log with exactly its first M - min(n, M) lines; for
\* n = 0 it moves nothing and the log keeps every line.
C20_Bound ==
    LET lines0 == LogLines(fs0)
        M == Len(lines0)
        n == call.arg
        removed == IF n < M THEN n ELSE M
    IN  call.fn = "undo_last_moves"
        => /\ Len(MovesDone) <= n
           /\ LogLines(fs) = SubSeq(lines0, 1, M - removed)
           /\ n = 0 => MovesDone = <<>> /\ LogLines(fs) = lines0
====
